---- MODULE Spec2Model ----
(***************************************************************************)
(* State-machine model of the speedreader RSVP playback engine             *)
(* (class RSVPEngine) together with the host timer queue it schedules on   *)
(* and the SpeedreaderUI callbacks it is constructed with.                 *)
(*                                                                         *)
(* Every engine method is an operator from an engine record to an engine   *)
(* record, composed in the order the JavaScript executes its statements;   *)
(* an action applies one public method (or fires one host timer) to the    *)
(* current state and commits the result.                                   *)
(*                                                                         *)
(* Strings are sequences of one-character strings.  Numbers that the code   *)
(* computes by division (a delay 60000 / wpm in milliseconds, a progress   *)
(* (currentIndex / words.length) * 100) are kept as the exact fraction     *)
(* <<numerator, denominator>> in lowest terms with a positive denominator, *)
(* so equal numbers are equal pairs.                                       *)
(***************************************************************************)
EXTENDS Integers, Sequences, FiniteSets, TLC

\* ------------------------------------------------------------------ bounds
MaxTextLen == 5
MaxPunctTextLen == 2
MaxLateSteps == 1
LateStep == 70
MaxWpmExcess == 50
MaxOrpWordLen == 15
MaxTokTextLen == 6

\* --------------------------------------------------------------- constants
DEFAULT_WPM == 300
MIN_WPM == 200
MAX_WPM == 1000
MS_PER_MINUTE == 60000
\* PUNCTUATION_PAUSE_MULTIPLIER 1.5 as the ratio 3/2
PAUSE_MULT_NUM == 3
PAUSE_MULT_DEN == 2
MIN_DELAY == 1

\* this.timeoutId === null
NULL_ID == 0

Whitespace == {" ", "\t", "\n"}
PUNCTUATION == {".", "!", "?", ";"}
Alphabet == {"a", ".", " "}

\* rates offered to setWPM (above MAX_WPM, so the stored rate is MAX_WPM)
WpmInputs == {1200}

\* how late (ms) the host may fire a timer after its requested delay
Lates == {k * LateStep : k \in 0..MaxLateSteps}

SeqsUpTo(S, n) == UNION {[1..k -> S] : k \in 0..n}
\* texts offered to setText: every text of plain words and blanks up to
\* MaxTextLen characters (empty, blank-only, leading, trailing and repeated
\* blanks included) and every text of punctuation and blanks up to
\* MaxPunctTextLen characters
Texts == SeqsUpTo({"a", " "}, MaxTextLen)
             \cup SeqsUpTo({".", " "}, MaxPunctTextLen)

Max(a, b) == IF a >= b THEN a ELSE b
Min(a, b) == IF a <= b THEN a ELSE b

RECURSIVE Gcd(_, _)
Gcd(a, b) == IF b = 0 THEN a ELSE Gcd(b, a % b)

Abs(a) == IF a < 0 THEN -a ELSE a

\* the number num/den (den > 0), in lowest terms
Frac(num, den) == LET g == Gcd(Abs(num), den) IN <<num \div g, den \div g>>

\* arithmetic on such numbers: x + y, x - y, x * y, x <= y, Math.max(x, y)
RatAdd(x, y) == Frac(x[1] * y[2] + y[1] * x[2], x[2] * y[2])
RatSub(x, y) == Frac(x[1] * y[2] - y[1] * x[2], x[2] * y[2])
RatMul(x, y) == Frac(x[1] * y[1], x[2] * y[2])
RatLeq(x, y) == x[1] * y[2] <= y[1] * x[2]
RatMax(x, y) == IF RatLeq(x, y) THEN y ELSE x
Rat(n) == <<n, 1>>

\* ------------------------------------------------------------ tokenisation
\* variant: only the space character separates words
IsWS_spaceOnly(c) == c = " "

IsWS(c) == c \in Whitespace

RECURSIVE TrimStart(_)
TrimStart(s) == IF s # <<>> /\ IsWS(Head(s)) THEN TrimStart(Tail(s)) ELSE s

RECURSIVE TrimEnd(_)
TrimEnd(s) ==
    IF s # <<>> /\ IsWS(s[Len(s)]) THEN TrimEnd(SubSeq(s, 1, Len(s) - 1)) ELSE s

\* String.prototype.trim
Trim(s) == TrimEnd(TrimStart(s))

\* String.prototype.split(/\s+/): the pieces between maximal whitespace runs,
\* empty pieces included (the empty string splits into one empty piece)
RECURSIVE SplitFrom(_, _)
SplitFrom(s, cur) ==
    IF s = <<>> THEN <<cur>>
    ELSE IF IsWS(Head(s)) THEN <<cur>> \o SplitFrom(TrimStart(s), <<>>)
    ELSE SplitFrom(Tail(s), Append(cur, Head(s)))

Split(s) == SplitFrom(s, <<>>)

\* text.trim().split(/\s+/).filter(word => word.length > 0)
Tokenize(text) == SelectSeq(Split(Trim(text)), LAMBDA w : Len(w) > 0)

\* --------------------------------------------------------------- variables
VARIABLES
    words,          \* this.words
    currentIndex,   \* this.currentIndex (0-based)
    wpm,            \* this.wpm
    isPlaying,      \* this.isPlaying
    timeoutId,      \* this.timeoutId: NULL_ID (null) or a host timer id
    timers,         \* host timer queue: the pending setTimeout callbacks
    isLoopEnabled,  \* SpeedreaderUI.isLoopEnabled
    button,         \* SpeedreaderUI play/pause button shows 'Pause'
    shown,          \* SpeedreaderUI redicle: the last word data rendered
    bar,            \* SpeedreaderUI progress bar: the last progress rendered
    log,            \* callbacks invoked by the last operation, in order
    peak,           \* most timers pending at once during the last operation
    ret,            \* <<v>> if the last operation returned v, <<>> if void
    op,             \* name of the last operation
    arg,            \* its text argument, <<>> if it has none
    wpmArg,         \* its rate argument, 0 if it has none
    pre,            \* engine state the last operation started from
    run,            \* callbacks since the last start() at position 0
    clock           \* timing of the playback since start(), kept by the
                    \* timed actions only

vars == <<words, currentIndex, wpm, isPlaying, timeoutId, timers,
          isLoopEnabled, button, shown, bar, log, peak, ret, op, arg, wpmArg,
          pre, run, clock>>

\* ------------------------------------------------------------ configuration
\* CONFIG.ORP_RULES; the last rule's maxLength is Infinity
ORP_RULES == <<
    [maxLength |-> 1,  unbounded |-> FALSE, orpIndex |-> 0],
    [maxLength |-> 5,  unbounded |-> FALSE, orpIndex |-> 1],
    [maxLength |-> 9,  unbounded |-> FALSE, orpIndex |-> 2],
    [maxLength |-> 13, unbounded |-> FALSE, orpIndex |-> 3],
    [maxLength |-> 0,  unbounded |-> TRUE,  orpIndex |-> 4] >>

\* what String(undefined) reads as when a regex is tested against undefined
Undefined == <<"u", "n", "d", "e", "f", "i", "n", "e", "d">>

\* DOM before anything was rendered
NoWord == [word |-> <<>>, orpIndex |-> 0, before |-> <<>>, orpChar |-> "",
           after |-> <<>>]
NoProgress == <<-1, 1>>

WordEvent(wd) == [type |-> "word", word |-> wd, progress |-> NoProgress]
ProgressEvent(p) == [type |-> "progress", word |-> NoWord, progress |-> p]
CompleteEvent == [type |-> "complete", word |-> NoWord, progress |-> NoProgress]

\* ------------------------------------------------------------- pure methods
\* variant: a rule applies only to lengths below its maxLength
RECURSIVE OrpScan_strictLess(_, _)
OrpScan_strictLess(length, i) ==
    IF i > Len(ORP_RULES) THEN Min(4, length - 1)
    ELSE IF ORP_RULES[i].unbounded \/ length < ORP_RULES[i].maxLength
         THEN Min(ORP_RULES[i].orpIndex, length - 1)
         ELSE OrpScan_strictLess(length, i + 1)

RECURSIVE OrpScan(_, _)
OrpScan(length, i) ==
    IF i > Len(ORP_RULES) THEN Min(4, length - 1)
    ELSE IF ORP_RULES[i].unbounded \/ length <= ORP_RULES[i].maxLength
         THEN Min(ORP_RULES[i].orpIndex, length - 1)
         ELSE OrpScan(length, i + 1)

calculateORP(word) == OrpScan(Len(word), 1)

\* CONFIG.PUNCTUATION_REGEX /[.!?;]$/
EndsWithPunctuation(word) == word # <<>> /\ word[Len(word)] \in PUNCTUATION

\* variant: no longer pause after punctuation
calculateDelay_noPause(e, word) == Frac(MS_PER_MINUTE, e.wpm)

calculateDelay(e, word) ==
    LET baseDelay == Frac(MS_PER_MINUTE, e.wpm)
    IN  IF EndsWithPunctuation(word)
        THEN RatMul(baseDelay, <<PAUSE_MULT_NUM, PAUSE_MULT_DEN>>)
        ELSE baseDelay

getProgress(e) ==
    IF Len(e.words) = 0 THEN Frac(0, 1)
    ELSE Frac(e.currentIndex * 100, Len(e.words))

hasText(e) == Len(e.words) > 0

getWordCount(e) == Len(e.words)

\* ------------------------------------------------------------- UI callbacks
\* SpeedreaderUI.renderWord, bound to onWordDisplay
renderWord(e, wordData) ==
    [e EXCEPT !.log = Append(@, WordEvent(wordData)), !.shown = wordData]

\* SpeedreaderUI.updateProgress, bound to onProgress
uiUpdateProgress(e, percent) ==
    [e EXCEPT !.log = Append(@, ProgressEvent(percent)), !.bar = percent]

updatePlayPauseButton(e, playing) == [e EXCEPT !.button = playing]

\* ----------------------------------------------------------- engine methods
\* variant: forgets the id without cancelling the host timer
clearTimeout_keepsHostTimer(e) ==
    IF e.timeoutId # NULL_ID THEN [e EXCEPT !.timeoutId = NULL_ID] ELSE e

clearTimeout(e) ==
    IF e.timeoutId # NULL_ID
    THEN [e EXCEPT !.timers = {t \in @ : t.id # e.timeoutId},
                   !.timeoutId = NULL_ID]
    ELSE e

getCurrentWordData(e) ==
    LET word == e.words[e.currentIndex + 1]
        orpIndex == calculateORP(word)
    IN  [word |-> word,
         orpIndex |-> orpIndex,
         before |-> SubSeq(word, 1, orpIndex),
         orpChar |-> word[orpIndex + 1],
         after |-> SubSeq(word, orpIndex + 2, Len(word))]

displayCurrentWord(e) ==
    IF e.currentIndex >= Len(e.words) THEN e
    ELSE renderWord(e, getCurrentWordData(e))

\* variant: reports the position one word ahead
updateProgress_offByOne(e) ==
    LET progress == IF Len(e.words) > 0
                    THEN Frac((e.currentIndex + 1) * 100, Len(e.words))
                    ELSE Frac(0, 1)
    IN  uiUpdateProgress(e, progress)

updateProgress(e) ==
    LET progress == IF Len(e.words) > 0
                    THEN Frac(e.currentIndex * 100, Len(e.words))
                    ELSE Frac(0, 1)
    IN  uiUpdateProgress(e, progress)

\* host timer ids are never reused; an id neither pending nor remembered by
\* the engine is indistinguishable from a new one
FreshId(e) ==
    LET used == {t.id : t \in e.timers} \cup {e.timeoutId}
    IN  CHOOSE i \in 1..(Cardinality(used) + 1) :
            i \notin used /\ \A j \in 1..(i - 1) : j \in used

\* the synchronous part of scheduleNextWord: compute the delay, hand the
\* callback to the host
\* variant: no 1 ms floor under the corrected delay
scheduleNextWord_noFloor(e, drift) ==
    IF ~e.isPlaying THEN e
    ELSE LET currentWord == IF e.currentIndex < Len(e.words)
                            THEN e.words[e.currentIndex + 1]
                            ELSE Undefined
             delay == RatSub(calculateDelay(e, currentWord), drift)
             id == FreshId(e)
             queue == e.timers \cup {[id |-> id, delay |-> delay]}
         IN  [e EXCEPT !.timers = queue,
                       !.timeoutId = id,
                       !.peak = Max(@, Cardinality(queue))]

scheduleNextWord(e, drift) ==
    IF ~e.isPlaying THEN e
    ELSE LET currentWord == IF e.currentIndex < Len(e.words)
                            THEN e.words[e.currentIndex + 1]
                            ELSE Undefined
             delay == RatMax(Rat(MIN_DELAY),
                             RatSub(calculateDelay(e, currentWord), drift))
             id == FreshId(e)
             queue == e.timers \cup {[id |-> id, delay |-> delay]}
         IN  [e EXCEPT !.timers = queue,
                       !.timeoutId = id,
                       !.peak = Max(@, Cardinality(queue))]

\* variant: corrects the first delay by a lateness measured earlier
start_carriesDrift(e) ==
    IF Len(e.words) = 0 THEN e
    ELSE IF e.isPlaying THEN e
    ELSE LET e1 == IF e.currentIndex >= Len(e.words)
                   THEN [e EXCEPT !.currentIndex = 0]
                   ELSE e
             e2 == [e1 EXCEPT !.isPlaying = TRUE]
         IN  scheduleNextWord(displayCurrentWord(e2), Rat(LateStep))

\* variant: always restarts from the first word
start_alwaysRestarts(e) ==
    IF Len(e.words) = 0 THEN e
    ELSE IF e.isPlaying THEN e
    ELSE LET e2 == [e EXCEPT !.currentIndex = 0, !.isPlaying = TRUE]
         IN  scheduleNextWord(displayCurrentWord(e2), Rat(0))

\* variant: no guard against starting twice
start_noPlayingGuard(e) ==
    IF Len(e.words) = 0 THEN e
    ELSE LET e1 == IF e.currentIndex >= Len(e.words)
                   THEN [e EXCEPT !.currentIndex = 0]
                   ELSE e
             e2 == [e1 EXCEPT !.isPlaying = TRUE]
         IN  scheduleNextWord(displayCurrentWord(e2), Rat(0))

\* variant: never restarts at the end
start_noRestart(e) ==
    IF Len(e.words) = 0 THEN e
    ELSE IF e.isPlaying THEN e
    ELSE LET e2 == [e EXCEPT !.isPlaying = TRUE]
         IN  scheduleNextWord(displayCurrentWord(e2), Rat(0))

start(e) ==
    IF Len(e.words) = 0 THEN e
    ELSE IF e.isPlaying THEN e
    ELSE LET e1 == IF e.currentIndex >= Len(e.words)
                   THEN [e EXCEPT !.currentIndex = 0]
                   ELSE e
             e2 == [e1 EXCEPT !.isPlaying = TRUE]
         IN  scheduleNextWord(displayCurrentWord(e2), Rat(0))

\* variant: flips the flag
pause_flips(e) == clearTimeout([e EXCEPT !.isPlaying = ~@])

\* variant: clears the flag only
pause_noClear(e) == [e EXCEPT !.isPlaying = FALSE]

pause(e) == clearTimeout([e EXCEPT !.isPlaying = FALSE])

\* variant: returns the negation of the old state
toggle_returnsNegation(e) ==
    LET e1 == IF e.isPlaying THEN pause(e) ELSE start(e)
    IN  [e1 EXCEPT !.ret = <<~e.isPlaying>>]

\* variant: calls start() whatever the state
toggle_alwaysStarts(e) ==
    LET e1 == start(e)
    IN  [e1 EXCEPT !.ret = <<e1.isPlaying>>]

toggle(e) ==
    LET e1 == IF e.isPlaying THEN pause(e) ELSE start(e)
    IN  [e1 EXCEPT !.ret = <<e1.isPlaying>>]

\* variant: does not show the first word again
reset_noDisplay(e) ==
    LET e1 == [pause(e) EXCEPT !.currentIndex = 0]
    IN  updateProgress(e1)

reset(e) ==
    LET e1 == [pause(e) EXCEPT !.currentIndex = 0]
        e2 == IF Len(e1.words) > 0 THEN displayCurrentWord(e1) ELSE e1
    IN  updateProgress(e2)

\* variant: keeps the old position
setText_keepsIndex(e, text) ==
    LET e1 == [e EXCEPT !.words = Tokenize(text),
                        !.isPlaying = FALSE]
        e2 == clearTimeout(e1)
        e3 == IF Len(e2.words) > 0 THEN displayCurrentWord(e2) ELSE e2
    IN  updateProgress(e3)

\* variant: does not call clearTimeout
setText_noClear(e, text) ==
    LET e1 == [e EXCEPT !.words = Tokenize(text),
                        !.currentIndex = 0,
                        !.isPlaying = FALSE]
        e3 == IF Len(e1.words) > 0 THEN displayCurrentWord(e1) ELSE e1
    IN  updateProgress(e3)

setText(e, text) ==
    LET e1 == [e EXCEPT !.words = Tokenize(text),
                        !.currentIndex = 0,
                        !.isPlaying = FALSE]
        e2 == clearTimeout(e1)
        e3 == IF Len(e2.words) > 0 THEN displayCurrentWord(e2) ELSE e2
    IN  updateProgress(e3)

\* variant: restarts the pending transition at the new rate
setWPM_reschedules(e, w) ==
    LET e1 == [e EXCEPT !.wpm = Max(MIN_WPM, Min(MAX_WPM, w))]
    IN  IF e1.isPlaying THEN scheduleNextWord(clearTimeout(e1), Rat(0))
        ELSE e1

\* variant: the two limits exchanged
setWPM_limitsSwapped(e, w) ==
    [e EXCEPT !.wpm = Max(MAX_WPM, Min(MIN_WPM, w))]

setWPM(e, w) == [e EXCEPT !.wpm = Max(MIN_WPM, Min(MAX_WPM, w))]

\* SpeedreaderUI.onComplete, bound to onComplete
\* variant: the button shows 'Start' after the loop restart
onComplete_loopShowsStart(e) ==
    LET e1 == [e EXCEPT !.log = Append(@, CompleteEvent)]
    IN  IF e1.isLoopEnabled
        THEN updatePlayPauseButton(start(reset(e1)), FALSE)
        ELSE updatePlayPauseButton(e1, FALSE)

\* variant: loop mode rewinds without starting again
onComplete_resetOnly(e) ==
    LET e1 == [e EXCEPT !.log = Append(@, CompleteEvent)]
    IN  IF e1.isLoopEnabled
        THEN updatePlayPauseButton(reset(e1), TRUE)
        ELSE updatePlayPauseButton(e1, FALSE)

onComplete(e) ==
    LET e1 == [e EXCEPT !.log = Append(@, CompleteEvent)]
    IN  IF e1.isLoopEnabled
        THEN updatePlayPauseButton(start(reset(e1)), TRUE)
        ELSE updatePlayPauseButton(e1, FALSE)

\* variant: end test currentIndex > words.length
timerCallback_lateEnd(e, t, late) ==
    IF ~e.isPlaying THEN e
    ELSE LET actualDelay == RatAdd(t.delay, Rat(late))
             newDrift == RatSub(actualDelay, t.delay)
             e1 == updateProgress([e EXCEPT !.currentIndex = @ + 1])
         IN  IF e1.currentIndex > Len(e1.words)
             THEN onComplete([e1 EXCEPT !.isPlaying = FALSE])
             ELSE scheduleNextWord(displayCurrentWord(e1), newDrift)

\* variant: hands no drift to the following transition
timerCallback_noDrift(e, t, late) ==
    IF ~e.isPlaying THEN e
    ELSE LET e1 == updateProgress([e EXCEPT !.currentIndex = @ + 1])
         IN  IF e1.currentIndex >= Len(e1.words)
             THEN onComplete([e1 EXCEPT !.isPlaying = FALSE])
             ELSE scheduleNextWord(displayCurrentWord(e1), Rat(0))

\* variant: does not schedule the following transition
timerCallback_noReschedule(e, t, late) ==
    IF ~e.isPlaying THEN e
    ELSE LET e1 == updateProgress([e EXCEPT !.currentIndex = @ + 1])
         IN  IF e1.currentIndex >= Len(e1.words)
             THEN onComplete([e1 EXCEPT !.isPlaying = FALSE])
             ELSE displayCurrentWord(e1)

\* variant: shows the next word before reporting the progress
timerCallback_wordFirst(e, t, late) ==
    IF ~e.isPlaying THEN e
    ELSE LET actualDelay == RatAdd(t.delay, Rat(late))
             newDrift == RatSub(actualDelay, t.delay)
             e1 == [e EXCEPT !.currentIndex = @ + 1]
         IN  IF e1.currentIndex >= Len(e1.words)
             THEN onComplete([updateProgress(e1) EXCEPT !.isPlaying = FALSE])
             ELSE scheduleNextWord(updateProgress(displayCurrentWord(e1)),
                                   newDrift)

\* the callback scheduleNextWord hands to setTimeout, run by the host for
\* timer t, late ms after the requested delay
timerCallback(e, t, late) ==
    IF ~e.isPlaying THEN e
    ELSE LET actualDelay == RatAdd(t.delay, Rat(late))
             newDrift == RatSub(actualDelay, t.delay)
             e1 == updateProgress([e EXCEPT !.currentIndex = @ + 1])
         IN  IF e1.currentIndex >= Len(e1.words)
             THEN onComplete([e1 EXCEPT !.isPlaying = FALSE])
             ELSE scheduleNextWord(displayCurrentWord(e1), newDrift)

\* SpeedreaderUI.togglePlayPause
togglePlayPause(e) ==
    IF ~hasText(e) THEN e
    ELSE LET e1 == toggle(e)
         IN  [updatePlayPauseButton(e1, e1.ret[1]) EXCEPT !.ret = <<>>]

\* SpeedreaderUI.reset
uiReset(e) == updatePlayPauseButton(reset(e), FALSE)

\* SpeedreaderUI.loadText, text being the content of the text input
loadText(e, text) == updatePlayPauseButton(setText(e, text), FALSE)

\* SpeedreaderUI.toggleLoop
toggleLoop(e) == [e EXCEPT !.isLoopEnabled = ~@]

\* ------------------------------------------------------------------ actions
\* the state an operation starts from: nothing emitted or returned yet
Begin ==
    [words |-> words, currentIndex |-> currentIndex, wpm |-> wpm,
     isPlaying |-> isPlaying, timeoutId |-> timeoutId, timers |-> timers,
     isLoopEnabled |-> isLoopEnabled, button |-> button, shown |-> shown,
     bar |-> bar, log |-> <<>>, peak |-> Cardinality(timers), ret |-> <<>>]

Snapshot == [isPlaying |-> isPlaying]

\* performance.now() before any playback: no transition has fired
ZeroClock ==
    [k |-> 0, elapsed |-> <<0, 1>>, nominal |-> <<0, 1>>, worst |-> <<0, 1>>,
     scheduled |-> <<0, 1>>, actual |-> <<0, 1>>]

Assign(e, name, input) ==
    /\ words' = e.words
    /\ currentIndex' = e.currentIndex
    /\ wpm' = e.wpm
    /\ isPlaying' = e.isPlaying
    /\ timeoutId' = e.timeoutId
    /\ timers' = e.timers
    /\ isLoopEnabled' = e.isLoopEnabled
    /\ button' = e.button
    /\ shown' = e.shown
    /\ bar' = e.bar
    /\ log' = e.log
    /\ peak' = e.peak
    /\ ret' = e.ret
    /\ op' = name
    /\ arg' = (IF name = "setWPM" THEN <<>> ELSE input)
    /\ wpmArg' = (IF name = "setWPM" THEN input ELSE 0)
    /\ pre' = Snapshot

Commit(e, name, input) == Assign(e, name, input) /\ clock' = clock

Init ==
    /\ words = <<>>
    /\ currentIndex = 0
    /\ wpm = DEFAULT_WPM
    /\ isPlaying = FALSE
    /\ timeoutId = NULL_ID
    /\ timers = {}
    /\ isLoopEnabled = FALSE
    /\ button = FALSE
    /\ shown = NoWord
    /\ bar = NoProgress
    /\ log = <<>>
    /\ peak = 0
    /\ ret = <<>>
    /\ op = "new"
    /\ arg = <<>>
    /\ wpmArg = 0
    /\ pre = [isPlaying |-> FALSE]
    /\ run = <<>>
    /\ clock = ZeroClock

SetText ==
    \E text \in Texts :
        /\ Commit(setText(Begin, text), "setText", text)
        /\ run' = <<>>

Start ==
    /\ Commit(start(Begin), "start", <<>>)
    /\ run' = IF ~isPlaying /\ Len(words) > 0 /\ currentIndex = 0
              THEN log' ELSE <<>>

Pause ==
    /\ Commit(pause(Begin), "pause", <<>>)
    /\ run' = <<>>

Toggle ==
    /\ Commit(toggle(Begin), "toggle", <<>>)
    /\ run' = <<>>

Reset ==
    /\ Commit(reset(Begin), "reset", <<>>)
    /\ run' = <<>>

SetWPM ==
    \E w \in WpmInputs :
        /\ Commit(setWPM(Begin, w), "setWPM", w)
        /\ run' = run

ToggleLoop ==
    /\ Commit(toggleLoop(Begin), "toggleLoop", <<>>)
    /\ run' = run

\* the host fires a pending timer: it leaves the queue, its callback runs
TimerFire ==
    \E t \in timers, late \in Lates :
        LET e0 == [Begin EXCEPT !.timers = @ \ {t},
                                !.peak = Cardinality(timers \ {t})]
            e1 == timerCallback(e0, t, late)
            restarted == isLoopEnabled /\ currentIndex + 1 >= Len(words)
        IN  /\ Commit(e1, "timer", <<>>)
            /\ run' = IF run # <<>> /\ ~restarted THEN run \o e1.log
                      ELSE <<>>

Next ==
    \/ SetText
    \/ Start
    \/ Pause
    \/ Toggle
    \/ Reset
    \/ SetWPM
    \/ ToggleLoop
    \/ TimerFire

Spec == Init /\ [][Next]_vars

\* ---- the rate setter alone, over every integer near the allowed range
WpmRange == (MIN_WPM - MaxWpmExcess)..(MAX_WPM + MaxWpmExcess)

SetWPMAny ==
    \E w \in WpmRange :
        /\ Commit(setWPM(Begin, w), "setWPM", w)
        /\ run' = run

NextWPM == SetWPMAny

SpecWPM == Init /\ [][NextWPM]_vars

\* ---- text typed one character at a time, each edit loaded into the engine
\* SpeedreaderUI.onTextChange -> loadText -> engine.setText(textInput.value);
\* arg holds the text typed so far
TypeText(chars, maxLen) ==
    \E c \in chars :
        /\ op \in {"new", "setText"}
        /\ Len(arg) < maxLen
        /\ Commit(updatePlayPauseButton(setText(Begin, Append(arg, c)), FALSE),
                  "setText", Append(arg, c))
        /\ run' = <<>>

\* a single word of letters and punctuation, up to MaxOrpWordLen characters
OrpAlphabet == {"a", "."}

TypeWord == TypeText(OrpAlphabet, MaxOrpWordLen)

NextORP == TypeWord

SpecORP == Init /\ [][NextORP]_vars

\* ---- typing a text of words and white space
TokAlphabet == {"a", ".", " ", "\n"}
TypeChar == TypeText(TokAlphabet, MaxTokTextLen)
NextTok == TypeChar
SpecTok == Init /\ [][NextTok]_vars

\* ---- the first delay of a playback, for every rate and kinds of word
\* one-word texts: plain, ending in each punctuation character, and with
\* punctuation that is not at the end
DelayTexts == {<<"a">>, <<"a", ".">>, <<"a", "!">>, <<"?">>, <<"a", ";">>,
               <<".", "a">>}

\* the engine as constructed
New ==
    [words |-> <<>>, currentIndex |-> 0, wpm |-> DEFAULT_WPM,
     isPlaying |-> FALSE, timeoutId |-> NULL_ID, timers |-> {},
     isLoopEnabled |-> FALSE, button |-> FALSE, shown |-> NoWord,
     bar |-> NoProgress, log |-> <<>>, peak |-> 0, ret |-> <<>>]

\* SpeedreaderUI.init: the saved rate is set, then the text is loaded
InitDelay ==
    \E w \in MIN_WPM..MAX_WPM, text \in DelayTexts :
        LET e == setText(setWPM(New, w), text)
        IN  /\ words = e.words
            /\ currentIndex = e.currentIndex
            /\ wpm = e.wpm
            /\ isPlaying = e.isPlaying
            /\ timeoutId = e.timeoutId
            /\ timers = e.timers
            /\ isLoopEnabled = e.isLoopEnabled
            /\ button = e.button
            /\ shown = e.shown
            /\ bar = e.bar
            /\ log = e.log
            /\ peak = e.peak
            /\ ret = e.ret
            /\ op = "setText"
            /\ arg = text
            /\ wpmArg = 0
            /\ pre = [isPlaying |-> FALSE]
            /\ run = <<>>
            /\ clock = ZeroClock

NextDelay ==
    \/ Start
    \/ Pause
    \/ TimerFire

SpecDelay == InitDelay /\ [][NextDelay]_vars

\* ---- the engine API on a few texts, the host firing every pending timer
LiveTexts == {<<>>, <<"a">>, <<"a", ".", " ", "a">>,
              <<"a", " ", "a", " ", "a">>}

SetTextLive ==
    \E text \in LiveTexts :
        /\ Commit(setText(Begin, text), "setText", text)
        /\ run' = <<>>

NextLive ==
    \/ SetTextLive
    \/ Start
    \/ Pause
    \/ Toggle
    \/ Reset
    \/ SetWPM
    \/ ToggleLoop
    \/ TimerFire

\* The host's event loop runs the callback of a timer that stays pending:
\* weak fairness of TimerFire.  TimerFire can take a step exactly when a
\* timer is pending, so WF_vars(TimerFire) is written with that condition
\* in place of ENABLED <<TimerFire>>_vars.
FairTimers == []<>(timers = {}) \/ []<><<TimerFire>>_vars

SpecLive == Init /\ [][NextLive]_vars /\ FairTimers

\* ---- the engine driven through the handlers of SpeedreaderUI
LoadText ==
    \E text \in LiveTexts :
        /\ Commit(loadText(Begin, text), "loadText", text)
        /\ run' = <<>>

TogglePlayPause ==
    /\ Commit(togglePlayPause(Begin), "togglePlayPause", <<>>)
    /\ run' = <<>>

UiReset ==
    /\ Commit(uiReset(Begin), "uiReset", <<>>)
    /\ run' = <<>>

NextUI ==
    \/ LoadText
    \/ TogglePlayPause
    \/ UiReset
    \/ ToggleLoop
    \/ TimerFire

SpecUI == Init /\ [][NextUI]_vars

\* ---- uninterrupted playback at a fixed rate, against the wall clock
DriftRates == {MIN_WPM, DEFAULT_WPM, MAX_WPM}
DriftTexts == {<<"a">>,
               <<"a", " ", "a", " ", "a", " ", "a">>,
               <<"a", ".", " ", "a", " ", "a", "!", " ", "a">>}

\* SpeedreaderUI.init: the saved rate is set, then the text is loaded
InitDrift ==
    \E w \in DriftRates, text \in DriftTexts :
        LET e == setText(setWPM(New, w), text)
        IN  /\ words = e.words
            /\ currentIndex = e.currentIndex
            /\ wpm = e.wpm
            /\ isPlaying = e.isPlaying
            /\ timeoutId = e.timeoutId
            /\ timers = e.timers
            /\ isLoopEnabled = e.isLoopEnabled
            /\ button = e.button
            /\ shown = e.shown
            /\ bar = e.bar
            /\ log = e.log
            /\ peak = e.peak
            /\ ret = e.ret
            /\ op = "setText"
            /\ arg = text
            /\ wpmArg = 0
            /\ pre = [isPlaying |-> FALSE]
            /\ run = <<>>
            /\ clock = ZeroClock

\* start(), the clock reset when the playback begins
StartTimed ==
    /\ Assign(start(Begin), "start", <<>>)
    /\ run' = <<>>
    /\ clock' = IF isPlaying THEN clock ELSE ZeroClock

\* the host fires the pending timer late ms after the delay asked for; the
\* clock has moved on by the time the timer took, and the word that was on
\* display has had its turn
TimerFireTimed ==
    \E t \in timers, late \in Lates :
        LET e0 == [Begin EXCEPT !.timers = @ \ {t},
                                !.peak = Cardinality(timers \ {t})]
            e1 == timerCallback(e0, t, late)
            took == RatAdd(t.delay, Rat(late))
        IN  /\ Assign(e1, "timer", <<>>)
            /\ run' = <<>>
            /\ clock' =
                   [k |-> clock.k + 1,
                    elapsed |-> RatAdd(clock.elapsed, took),
                    nominal |-> RatAdd(clock.nominal,
                                       calculateDelay(Begin,
                                                      words[currentIndex + 1])),
                    worst |-> RatMax(clock.worst, Rat(late)),
                    scheduled |-> t.delay,
                    actual |-> took]

NextDrift ==
    \/ StartTimed
    \/ TimerFireTimed

SpecDrift == InitDrift /\ [][NextDrift]_vars

TypeOK ==
    /\ words \in Seq(Seq(Alphabet))
    /\ currentIndex \in Nat
    /\ wpm \in MIN_WPM..MAX_WPM
    /\ isPlaying \in BOOLEAN
    /\ timeoutId \in Nat
    /\ isLoopEnabled \in BOOLEAN
    /\ button \in BOOLEAN

\* =================================================================== claims
Pending == Cardinality(timers)

CancelOps == {"pause", "reset", "setText"}

\* C1: between operations the engine is Playing exactly when a scheduled
\* transition is pending in the host queue; a state that is not Playing has
\* none.
C1_PlayingIffPending == isPlaying <=> (timers # {})

\* a timer fired mid-sequence and the callback scheduled the next one
C1_Witness ==
    op = "timer" /\ isPlaying /\ Pending = 1 /\ currentIndex > 0

\* C2: never more than one scheduled transition, neither between operations
\* nor at any point inside one, the loop-mode completion callback (reset then
\* start inside the firing timer) included.
C2_AtMostOnePending == Pending <= 1 /\ peak <= 1

\* the last timer fired with loop mode on: completed, reset, started again
C2_Witness ==
    /\ op = "timer" /\ isLoopEnabled
    /\ \E i \in 1..Len(log) : log[i].type = "complete"
    /\ isPlaying /\ Pending = 1 /\ peak = 1

\* C3: pause(), reset() and setText() leave no scheduled transition behind,
\* so nothing scheduled before them can fire: a timer fires only if one is
\* pending, and one becomes pending again only through start() (or toggle()).
C3_NoStaleTransition ==
    [][/\ op' \in CancelOps => timers' = {}
       /\ (op' = "toggle" /\ isPlaying) => timers' = {}
       /\ (timers = {} /\ timers' # {}) => op' \in {"start", "toggle"}
       /\ op' = "timer" => timers # {}]_vars

\* a pending transition was cancelled by pause, reset or setText
C3_Witness ==
    op \in CancelOps /\ pre.isPlaying /\ timers = {} /\ ~isPlaying

\* C4: between operations, once a progress-changed event has been emitted,
\* getProgress() equals the most recently emitted value (the one the
\* progress callback last received).
C4_ProgressMatchesLastEmitted ==
    bar # NoProgress => getProgress(Begin) = bar

\* C5: 0 <= currentIndex <= words.length always, and currentIndex <
\* words.length while Playing, so the word whose delay is computed exists.
C5_PositionInRange ==
    /\ 0 <= currentIndex /\ currentIndex <= Len(words)
    /\ isPlaying => currentIndex < Len(words)

\* the position reached the end and playback stopped there
C5_Witness ==
    op = "timer" /\ Len(words) > 0 /\ currentIndex = Len(words) /\ ~isPlaying

\* ---- C6
OfType(s, ty) == SelectSeq(s, LAMBDA ev : ev.type = ty)

\* C6: a start() at position 0 of N >= 1 words followed only by timer firings
\* emits word-changed for words 0..N-1 in order and progress-changed with
\* k/N*100 for k = 1..N in order (the first k of each once the position is
\* k < N), and on reaching N exactly one playback-completed, last of all,
\* leaving the engine not Playing with no transition pending.
C6_FullPlayback ==
    run # <<>> =>
        LET N == Len(words)
            k == currentIndex
            ws == OfType(run, "word")
            ps == OfType(run, "progress")
            cs == OfType(run, "complete")
        IN  /\ N >= 1
            /\ Len(ws) = (IF k < N THEN k + 1 ELSE N)
            /\ \A i \in 1..Len(ws) : ws[i].word.word = words[i]
            /\ Len(ps) = k
            /\ \A i \in 1..k : ps[i].progress = Frac(i * 100, N)
            /\ Len(run) = Len(ws) + Len(ps) + Len(cs)
            /\ IF k < N
               THEN cs = <<>> /\ isPlaying /\ Pending = 1
               ELSE /\ Len(cs) = 1
                    /\ run[Len(run)].type = "complete"
                    /\ ~isPlaying
                    /\ timers = {}

\* three words were played from start() to completion without interruption
C6_Witness ==
    /\ run # <<>> /\ Len(words) = 3 /\ currentIndex = 3
    /\ Len(OfType(run, "word")) = 3
    /\ Len(OfType(run, "progress")) = 3
    /\ run[Len(run)].type = "complete"

\* ---- C7
\* C7: start() right after a pause() that cancelled a pending transition at
\* position p keeps the position at p, emits word-changed for word p only
\* (the word that was on display), and schedules one transition; the
\* position moves on by exactly one when a transition fires (to 0 when the
\* loop-mode completion callback restarts).
C7_ResumeKeepsPosition ==
    [][/\ (op = "pause" /\ pre.isPlaying /\ op' = "start") =>
              /\ currentIndex' = currentIndex
              /\ isPlaying'
              /\ Len(log') = 1
              /\ log'[1].type = "word"
              /\ log'[1].word.word = words[currentIndex + 1]
              /\ shown' = shown
              /\ Cardinality(timers') = 1
       /\ op' = "timer" =>
              \/ currentIndex' = currentIndex + 1
              \/ isLoopEnabled /\ currentIndex + 1 = Len(words)
                               /\ currentIndex' = 0
       /\ (op' \in {"pause", "setWPM", "toggleLoop"}) =>
              currentIndex' = currentIndex]_vars

\* playback was resumed in the middle of the sequence
C7_Witness ==
    /\ op = "start" /\ ~pre.isPlaying /\ isPlaying
    /\ currentIndex > 0 /\ currentIndex < Len(words)
    /\ Len(log) = 1 /\ log[1].word.word = words[currentIndex + 1]

\* ---- C8
IsBlank(text) == \A i \in 1..Len(text) : text[i] \in Whitespace

EngineVars == <<words, currentIndex, wpm, isPlaying, timeoutId, timers>>

\* C8: setText with an empty or blank-only text yields zero words
\* (getWordCount 0, hasText false), emits progress 0 and no word-changed;
\* while the sequence is empty start() and toggle() change nothing, schedule
\* nothing, emit nothing, and toggle() returns false.
C8_EmptyText ==
    [][/\ (op' = "setText" /\ IsBlank(arg')) =>
              /\ words' = <<>>
              /\ log' = <<ProgressEvent(<<0, 1>>)>>
              /\ ~isPlaying' /\ timers' = {}
       /\ (words = <<>> /\ op' \in {"start", "toggle"}) =>
              /\ UNCHANGED EngineVars
              /\ UNCHANGED <<shown, bar, button>>
              /\ ~isPlaying' /\ timers' = {} /\ peak' = 0
              /\ log' = <<>>
              /\ op' = "toggle" => ret' = <<FALSE>>]_vars

\* toggle() was called on an engine loaded with a blank text
C8_Witness ==
    /\ op = "toggle" /\ words = <<>> /\ bar = <<0, 1>>
    /\ ret = <<FALSE>> /\ ~isPlaying /\ log = <<>>

\* ---- C9
\* C9: start() on a Playing engine changes nothing: position, rate, words,
\* the pending transition and its delay stay as they were, nothing more is
\* scheduled and no callback is invoked.
C9_StartWhilePlayingNoOp ==
    [][(op' = "start" /\ isPlaying) =>
           /\ UNCHANGED EngineVars
           /\ UNCHANGED <<shown, bar, button>>
           /\ log' = <<>>
           /\ peak' = Pending]_vars

\* start() was called while a transition was pending
C9_Witness ==
    op = "start" /\ pre.isPlaying /\ isPlaying /\ Pending = 1 /\ log = <<>>

\* ---- C10
\* C10: start() on a non-Playing engine with words makes it Playing, emits
\* exactly word-changed for the word at the resulting position and
\* schedules exactly one transition; the resulting position is 0 when the
\* position was at the end and the old position otherwise.
C10_StartPosition ==
    [][(op' = "start" /\ ~isPlaying /\ Len(words) > 0) =>
           /\ currentIndex' = (IF currentIndex >= Len(words)
                               THEN 0 ELSE currentIndex)
           /\ isPlaying'
           /\ words' = words
           /\ Len(log') = 1
           /\ log'[1].type = "word"
           /\ log'[1].word.word = words[currentIndex' + 1]
           /\ Cardinality(timers') = 1
           /\ peak' = 1]_vars

\* start() restarted a completed playback: the last progress shown is 100
C10_Witness ==
    /\ op = "start" /\ ~pre.isPlaying /\ isPlaying
    /\ bar = <<100, 1>> /\ currentIndex = 0 /\ Pending = 1

\* ---- C11
\* the callbacks a load of, or a return to, the first word must produce:
\* word-changed for the first word if there is one, then progress 0
FirstWordThenZero(lg, ws) ==
    IF ws = <<>>
    THEN lg = <<ProgressEvent(<<0, 1>>)>>
    ELSE /\ Len(lg) = 2
         /\ lg[1].type = "word"
         /\ lg[1].word.word = ws[1]
         /\ lg[1].word.before \o <<lg[1].word.orpChar>> \o lg[1].word.after
                = ws[1]
         /\ lg[2] = ProgressEvent(<<0, 1>>)

\* C11: setText from any state leaves the engine not Playing at position 0
\* with nothing scheduled, and emits word-changed for the first word (only
\* if there is one) followed by exactly one progress-changed with value 0.
C11_SetTextResets ==
    [][op' = "setText" =>
           /\ ~isPlaying'
           /\ currentIndex' = 0
           /\ timers' = {}
           /\ FirstWordThenZero(log', words')]_vars

\* a text with words was loaded while the engine was Playing
C11_Witness ==
    /\ op = "setText" /\ pre.isPlaying /\ Len(words) > 0
    /\ ~isPlaying /\ currentIndex = 0 /\ timers = {} /\ Len(log) = 2

\* ---- C12
\* C12: reset() from any state leaves the engine not Playing at position 0
\* with nothing scheduled and the same words and rate, emits word-changed
\* for the first word if there is one and then progress 0; right after
\* setText it emits what setText emitted and leaves the state setText left.
C12_ResetToStart ==
    [][/\ op' = "reset" =>
              /\ ~isPlaying'
              /\ currentIndex' = 0
              /\ timers' = {}
              /\ words' = words /\ wpm' = wpm
              /\ FirstWordThenZero(log', words)
       /\ (op = "setText" /\ op' = "reset") =>
              /\ log' = log
              /\ UNCHANGED EngineVars
              /\ UNCHANGED <<shown, bar>>]_vars

\* reset() was called during playback of a loaded text
C12_Witness ==
    /\ op = "reset" /\ pre.isPlaying /\ Len(words) > 0
    /\ ~isPlaying /\ currentIndex = 0 /\ timers = {} /\ Len(log) = 2

\* ---- C13
\* C13: pause() never moves the position, changes the words or the rate, or
\* invokes a callback, and leaves the engine not Playing with nothing
\* scheduled; on an engine that is not Playing it changes neither isPlaying
\* nor the (empty) timer queue, and a second pause() right after a first
\* changes nothing at all.
C13_PauseIdempotent ==
    [][/\ op' = "pause" =>
              /\ UNCHANGED <<words, currentIndex, wpm, shown, bar, button>>
              /\ ~isPlaying'
              /\ timers' = {}
              /\ log' = <<>>
       /\ (op' = "pause" /\ ~isPlaying) => UNCHANGED <<isPlaying, timers>>
       /\ (op = "pause" /\ op' = "pause") => UNCHANGED EngineVars]_vars

\* pause() was called on an engine already paused in mid-sequence
C13_Witness ==
    /\ op = "pause" /\ ~pre.isPlaying /\ ~isPlaying
    /\ currentIndex > 0 /\ currentIndex < Len(words) /\ log = <<>>

\* ---- C14
\* C14: setWPM(w) stores w when MIN_WPM <= w <= MAX_WPM, MIN_WPM when w is
\* smaller and MAX_WPM when w is larger, for every integer w offered; the
\* stored rate, the initial DEFAULT_WPM included, is always within
\* [MIN_WPM, MAX_WPM].
C14_RateClamped ==
    /\ MIN_WPM <= wpm /\ wpm <= MAX_WPM
    /\ op = "setWPM" =>
           LET w == wpmArg
           IN  /\ w < MIN_WPM => wpm = MIN_WPM
               /\ w > MAX_WPM => wpm = MAX_WPM
               /\ (MIN_WPM <= w /\ w <= MAX_WPM) => wpm = w

\* a rate below the minimum was offered and the minimum stored
C14_Witness ==
    op = "setWPM" /\ wpmArg = MIN_WPM - MaxWpmExcess /\ wpm = MIN_WPM

\* ---- C15
\* d is max(1 ms, nominal - l) where nominal is 60000/rate ms, times 3/2
\* when word ends in one of . ! ? ;
IsDelayFor(d, rate, word, l) ==
    LET punct == Len(word) > 0 /\ word[Len(word)] \in {".", "!", "?", ";"}
        num == IF punct THEN 3 * 60000 ELSE 60000
        den == IF punct THEN 2 * rate ELSE rate
        left == num - l * den
    IN  IF left >= den THEN d[1] * den = left * d[2] ELSE d = <<1, 1>>

\* C15: setWPM changes the stored rate and nothing else: the pending
\* transition with the delay it was given, the position and isPlaying stay,
\* and no callback runs; every transition scheduled later gets a delay
\* computed from the rate stored at that moment.
C15_RateAppliesToNextDelay ==
    [][/\ op' = "setWPM" =>
              /\ UNCHANGED <<words, currentIndex, isPlaying, timeoutId,
                             timers, shown, bar, button>>
              /\ log' = <<>>
       /\ \A t \in timers' \ timers :
              \E l \in Lates :
                  /\ op' \in {"start", "toggle"} => l = 0
                  /\ IsDelayFor(t.delay, wpm, words[currentIndex' + 1], l)
      ]_vars

\* the rate was raised to MAX_WPM while a delay computed at DEFAULT_WPM was
\* counting down
C15_Witness ==
    /\ op = "setWPM" /\ isPlaying /\ wpm = MAX_WPM
    /\ \E t \in timers : t.delay[1] * DEFAULT_WPM = MS_PER_MINUTE * t.delay[2]

\* ---- C16
\* the index the configured rule table assigns to a word of length L
OrpOfLength(L) ==
    CASE L = 1 -> 0
      [] L \in 2..5 -> 1
      [] L \in 6..9 -> 2
      [] L \in 10..13 -> 3
      [] OTHER -> 4

\* C16: for every word of length L >= 1, whatever its characters, the
\* recognition index handed out with the word is within 0..L-1, is the one
\* the rule table gives for L (0; 1 for 2..5; 2 for 6..9; 3 for 10..13; 4
\* from 14 on), names the character at that index, and is never lower than
\* the index of the word one character shorter.
C16_OrpIndex ==
    [][(op' = "setText" /\ Len(words') = 1) =>
           LET word == words'[1]
               L == Len(word)
               i == shown'.orpIndex
           IN  /\ log'[1].word = shown'
               /\ shown'.word = word
               /\ 0 <= i /\ i <= L - 1
               /\ i = OrpOfLength(L)
               /\ shown'.orpChar = word[i + 1]
               /\ i >= shown.orpIndex]_vars

\* a 14-character word ending in punctuation got index 4
C16_Witness ==
    /\ op = "setText" /\ Len(words) = 1 /\ Len(words[1]) = 14
    /\ words[1][14] = "." /\ shown.orpIndex = 4

\* ---- C17
\* C17: the delay computed for the word on display when playback starts is
\* 60000 / wpm ms when the word's last character is none of . ! ? ; and
\* 3/2 of that when it is one of them, and it is strictly positive, for
\* every rate from MIN_WPM to MAX_WPM.
C17_DelayFormula ==
    (op = "start" /\ ~pre.isPlaying /\ isPlaying) =>
        /\ Pending = 1
        /\ \A t \in timers :
               LET d == t.delay
                   word == words[currentIndex + 1]
                   last == word[Len(word)]
               IN  /\ d[1] > 0 /\ d[2] > 0
                   /\ last \notin {".", "!", "?", ";"} =>
                          d[1] * wpm = 60000 * d[2]
                   /\ last \in {".", "!", "?", ";"} =>
                          2 * d[1] * wpm = 3 * 60000 * d[2]

\* at 225 wpm a word ending in "!" is given 400 ms
C17_Witness ==
    /\ op = "start" /\ isPlaying /\ wpm = 225
    /\ words = << <<"a", "!">> >>
    /\ timers = {[id |-> 1, delay |-> <<400, 1>>]}

\* ---- C18
\* C18: toggle() pauses a Playing engine (not Playing afterwards, nothing
\* pending, position kept, returns false), starts an engine that is not
\* Playing and has words (Playing afterwards, the current word shown, one
\* transition pending, returns true), changes nothing and returns false
\* when there are no words; the value returned is always isPlaying after
\* the call.
C18_Toggle ==
    [][op' = "toggle" =>
           /\ ret' = <<isPlaying'>>
           /\ isPlaying =>
                  /\ ~isPlaying' /\ ret' = <<FALSE>>
                  /\ timers' = {} /\ timeoutId' = NULL_ID
                  /\ currentIndex' = currentIndex
                  /\ log' = <<>>
           /\ (~isPlaying /\ words # <<>>) =>
                  /\ isPlaying' /\ ret' = <<TRUE>>
                  /\ Cardinality(timers') = 1
                  /\ currentIndex' =
                         (IF currentIndex >= Len(words) THEN 0
                          ELSE currentIndex)
                  /\ Len(log') = 1 /\ log'[1].type = "word"
                  /\ log'[1].word.word = words[currentIndex' + 1]
           /\ (~isPlaying /\ words = <<>>) =>
                  /\ ret' = <<FALSE>>
                  /\ UNCHANGED EngineVars
           /\ UNCHANGED <<words, wpm>>]_vars

\* toggle() paused a Playing engine in the middle of its words
C18_Witness ==
    /\ op = "toggle" /\ pre.isPlaying /\ ret = <<FALSE>>
    /\ ~isPlaying /\ currentIndex = 1 /\ Len(words) = 2

\* ---- C19
\* positions of text where a run of non-whitespace characters begins, ends
RunStarts(text) ==
    {i \in 1..Len(text) :
        /\ text[i] \notin {" ", "\t", "\n"}
        /\ i = 1 \/ text[i - 1] \in {" ", "\t", "\n"}}
RunEnds(text) ==
    {i \in 1..Len(text) :
        /\ text[i] \notin {" ", "\t", "\n"}
        /\ i = Len(text) \/ text[i + 1] \in {" ", "\t", "\n"}}
\* the k-th smallest member of a set of numbers
Nth(S, k) == CHOOSE x \in S : Cardinality({y \in S : y <= x}) = k

\* C19: setText(text) makes words the maximal runs of non-whitespace
\* characters of text, in the order of the text: there are as many words as
\* runs, the k-th word is the text from the k-th run start to the k-th run
\* end, and no word is empty or contains white space, however much white
\* space leads, trails or separates.
C19_Tokens ==
    op = "setText" =>
        /\ Len(words) = Cardinality(RunStarts(arg))
        /\ \A k \in 1..Len(words) :
               /\ words[k] = SubSeq(arg, Nth(RunStarts(arg), k),
                                    Nth(RunEnds(arg), k))
               /\ Len(words[k]) > 0
               /\ \A i \in 1..Len(words[k]) :
                      words[k][i] \notin {" ", "\t", "\n"}

\* a text with leading, repeated, mixed and trailing white space
C19_Witness ==
    /\ op = "setText"
    /\ arg = <<" ", "a", "\n", " ", ".", " ">>
    /\ words = << <<"a">>, <<".">> >>

\* ---- C20
\* C20: a transition that fires while Playing moves the position on by one
\* and emits progress-changed for the new position first.  At the end of
\* the words playback-completed comes next, with no word-changed before it,
\* and (unless the loop-mode completion callback restarts the playback) the
\* engine is left not Playing with nothing pending.  Before the end
\* word-changed for the new current word comes next and last, the engine
\* stays Playing and exactly one new transition is pending.
C20_TransitionStep ==
    [][(op' = "timer" /\ isPlaying) =>
           LET N == Len(words)
               k == currentIndex + 1
           IN  /\ words' = words
               /\ Len(log') >= 2
               /\ log'[1] = ProgressEvent(Frac(k * 100, N))
               /\ IF k >= N
                  THEN /\ log'[2] = CompleteEvent
                       /\ ~isLoopEnabled =>
                              /\ Len(log') = 2
                              /\ currentIndex' = k
                              /\ ~isPlaying'
                              /\ timers' = {}
                              /\ peak' = 0
                  ELSE /\ Len(log') = 2
                       /\ log'[2].type = "word"
                       /\ log'[2].word.word = words[k + 1]
                       /\ log'[2].word = shown'
                       /\ currentIndex' = k
                       /\ isPlaying'
                       /\ Cardinality(timers') = 1
                       /\ timers' \cap timers = {}
                       /\ peak' = 1]_vars

\* a transition fired before the last of three words
C20_Witness ==
    /\ op = "timer" /\ isPlaying /\ ~isLoopEnabled
    /\ Len(words) = 3 /\ currentIndex = 2
    /\ Len(log) = 2 /\ log[2].type = "word"

\* ---- C21
\* playback ran to the end: position = words.length, not Playing, and the
\* last firing emitted playback-completed
Completed ==
    /\ op = "timer" /\ ~isPlaying
    /\ Len(words) > 0 /\ currentIndex = Len(words)
    /\ log[Len(log)] = CompleteEvent
\* the last operation was a pause(), reset() or setText() (toggle() on a
\* Playing engine is pause())
Interrupted == op \in CancelOps \/ (op = "toggle" /\ pre.isPlaying)
\* the completion callback of the last firing restarted the playback
Restarted ==
    /\ op = "timer" /\ isPlaying /\ currentIndex = 0
    /\ OfType(log, "complete") # <<>>

\* C21: when pending timers are eventually fired, a Playing engine
\* eventually reaches Completed, unless a pause(), reset() or setText()
\* intervenes or the completion callback restarts the playback.
C21_EventuallyCompleted ==
    isPlaying ~> (Completed \/ Interrupted \/ Restarted)

\* two words were played to the end at the highest rate
C21_Witness ==
    Completed /\ Len(words) = 2 /\ wpm = MAX_WPM /\ ~isLoopEnabled /\ ~button

\* ---- C22
\* how far the wall clock is ahead of the sum of the nominal delays
Excess == RatSub(clock.elapsed, clock.nominal)

C23_DelayFloor ==
    isPlaying =>
        /\ Pending = 1
        /\ \A t \in timers :
               LET drift == IF clock.k > 0
                            THEN RatSub(clock.actual, clock.scheduled)
                            ELSE <<0, 1>>
               IN  /\ drift[2] = 1
                   /\ IsDelayFor(t.delay, wpm, words[currentIndex + 1],
                                 drift[1])
                   /\ t.delay[1] >= t.delay[2] /\ t.delay[2] > 0

\* at the highest rate a timer was later than the next word's whole delay:
\* the next transition is due in 1 ms
C23_Witness ==
    /\ op = "timer" /\ isPlaying /\ wpm = MAX_WPM
    /\ clock.actual = <<60 + LateStep, 1>> /\ clock.scheduled = <<60, 1>>
    /\ \E t \in timers : t.delay = <<1, 1>>

\* ---- C24
\* C24: after every handler of the UI (togglePlayPause, reset, loadText,
\* toggleLoop) and every timer callback, completion with or without loop
\* mode included, the play/pause button shows 'Pause' exactly when the
\* engine is Playing.
C24_ButtonShowsState == button <=> isPlaying

\* loop mode restarted the playback and the button still shows 'Pause'
C24_Witness ==
    /\ op = "timer" /\ isLoopEnabled /\ isPlaying /\ button
    /\ currentIndex = 0 /\ OfType(log, "complete") # <<>>

\* ---- C25
\* C25: with loop mode on, the firing that reaches the end emits progress
\* 100 and playback-completed, then (from the completion callback's
\* reset() and start()) word-changed for the first word, progress 0 and
\* word-changed for the first word again, and leaves the engine Playing at
\* position 0 with the first word and progress 0 on display and exactly
\* one transition pending; no firing with loop mode on leaves the engine
\* not Playing.
C25_LoopRestart ==
    [][(op' = "timer" /\ isPlaying /\ isLoopEnabled) =>
           /\ isPlaying'
           /\ currentIndex + 1 >= Len(words) =>
                  /\ Len(log') = 5
                  /\ log'[1] = ProgressEvent(<<100, 1>>)
                  /\ log'[2] = CompleteEvent
                  /\ log'[3].type = "word"
                  /\ log'[3].word.word = words[1]
                  /\ log'[4] = ProgressEvent(<<0, 1>>)
                  /\ log'[5] = log'[3]
                  /\ currentIndex' = 0
                  /\ shown'.word = words[1]
                  /\ bar' = <<0, 1>>
                  /\ Cardinality(timers') = 1
                  /\ peak' = 1
                  /\ timeoutId' \in {t.id : t \in timers'}
                  /\ words' = words]_vars

\* the last of three words was reached with loop mode on
C25_Witness ==
    /\ op = "timer" /\ isLoopEnabled /\ isPlaying /\ currentIndex = 0
    /\ Len(words) = 3 /\ Len(log) = 5 /\ bar = <<0, 1>>

\* ---- C26
\* C26: whenever start() makes the engine Playing, called directly, through
\* toggle() or by the loop-mode completion callback, at the first word,
\* after a pause or after completion, the one transition pending
\* afterwards has the full delay of the word on display at the current
\* rate (60000 / wpm ms, 3/2 of it after . ! ? ;), whatever delay and
\* lateness the transitions before it had.
C26_StartUsesNoDrift ==
    [][(\/ op' \in {"start", "toggle"} /\ ~isPlaying /\ isPlaying'
        \/ /\ op' = "timer" /\ isPlaying /\ isLoopEnabled
           /\ currentIndex + 1 >= Len(words)) =>
           /\ wpm' = wpm
           /\ Cardinality(timers') = 1
           /\ \A t \in timers' :
                  IsDelayFor(t.delay, wpm', words'[currentIndex' + 1], 0)]_vars

\* playback was resumed at the second word at the highest rate: 60 ms
C26_Witness ==
    /\ op = "start" /\ ~pre.isPlaying /\ isPlaying
    /\ currentIndex = 1 /\ wpm = MAX_WPM
    /\ \E t \in timers : t.delay = <<60, 1>>

====
